---- MODULE Spec2Model ----
(***************************************************************************)
(* RadiologyAI Pro: the two Streamlit scripts app.py and app2.py as a      *)
(* state machine.  One step is one user interaction followed by the        *)
(* complete rerun of the script that Streamlit performs for it.            *)
(***************************************************************************)
EXTENDS Integers, Sequences, FiniteSets, TLC

VARIABLES
    variant,        \* which script serves the session: "app" or "app2"
    page,           \* value of the sidebar radio
    uploaded_file,  \* value of the feature pages' file uploader
    file1,          \* value of the Compare page's first uploader  (app2)
    file2,          \* value of the Compare page's second uploader (app2)
    patient,        \* values of the four patient-information widgets
    session_state,  \* st.session_state: a mapping from keys to values
    now,            \* datetime.now(), one tick per interaction
    out,            \* what the last script run did and rendered
    saved,          \* auxiliary: the successful feature-page analyses, in order
    lastOk          \* auxiliary: the last successful feature-page analysis

vars == <<variant, page, uploaded_file, file1, file2, patient,
          session_state, now, out, saved, lastOk>>

-----------------------------------------------------------------------------
(* Bounds of the model: a session is explored while it has at most MaxNow   *)
(* interactions, or while it has at most MaxSaved analyses saved to the    *)
(* history and at most MaxOther interactions of any other kind             *)

MaxNow == 5
MaxOther == 2
MaxSaved == 11

(* Python's None *)
None == [none |-> TRUE]

(* The files a user can pick, and an empty uploader *)
NoFile == "no file"
GoodFiles == {"chest.jpg", "head.png"}
CorruptFiles == {"broken.jpg"}
Files == GoodFiles \cup CorruptFiles

(* What the inference endpoint can answer: an exception, or a text *)
Texts == { <<"#", "F", "\n", "\n", "o", "k">> }
EmptyText == <<>>
Replies == {[ok |-> FALSE]} \cup {[ok |-> TRUE, text |-> t] : t \in Texts \cup {EmptyText}}

(* Where the PDF library can fail *)
Faults == {"none", "image", "build"}

(* Values typed into the patient-information widgets *)
PatientValues ==
    [patient_id |-> {"", "P-17"}, patient_age |-> {""},
     patient_gender |-> {"", "Female"}, physician |-> {""}]
PatientFields == DOMAIN PatientValues
NoPatient == [f \in PatientFields |-> ""]

-----------------------------------------------------------------------------
(* Dictionaries *)

EmptyDict == [k \in {} |-> None]
Put(d, k, v) == [x \in (DOMAIN d) \cup {k} |-> IF x = k THEN v ELSE d[x]]
Del(d, k) == [x \in (DOMAIN d) \ {k} |-> d[x]]
Has(d, k) == k \in DOMAIN d

(* `is not None` for truthiness: the empty string passes *)
Truthy_is_not_None(s) == s # None

(* Python truthiness of a str-or-None *)
Truthy(s) == s # None /\ s # EmptyText

-----------------------------------------------------------------------------
(* Pages and feature configuration *)

FeaturePages == {"Image Classification", "X-ray", "CT Scan", "MRI", "Ultrasound"}

Pages(v) ==
    IF v = "app2"
    THEN {"Home"} \cup FeaturePages \cup {"History", "Compare"}
    ELSE {"Home"} \cup FeaturePages

FEATURES ==
    [p \in FeaturePages |->
        CASE p = "Image Classification" ->
                [title |-> "Medical Image Classification", prompt |-> <<"Classify this medical image">>]
          [] p = "X-ray" ->
                [title |-> "X-ray Analysis", prompt |-> <<"Expert radiologist analysis">>]
          [] p = "CT Scan" ->
                [title |-> "CT Scan Analysis", prompt |-> <<"CT imaging specialist analysis">>]
          [] p = "MRI" ->
                [title |-> "MRI Scan Analysis", prompt |-> <<"MRI specialist report">>]
          [] p = "Ultrasound" ->
                [title |-> "Ultrasound Analysis", prompt |-> <<"Sonography expert analysis">>]]

(* app.py: the branches of the feature pages; its pages "X-ray Report",     *)
(* "CT Scan Report", ... go under the names app2.py gives them             *)
AppFeature(p) ==
    CASE p = "Image Classification" ->
            [report_type |-> "Image Classification", prompt |-> <<"Analyze this medical image and classify it">>]
      [] p = "X-ray" ->
            [report_type |-> "X-ray Analysis", prompt |-> <<"You are an expert radiologist">>]
      [] p = "CT Scan" ->
            [report_type |-> "CT Scan Analysis", prompt |-> <<"You are an expert radiologist specializing in CT imaging">>]
      [] p = "MRI" ->
            [report_type |-> "MRI Scan Analysis", prompt |-> <<"You are an expert radiologist specializing in MRI imaging">>]
      [] OTHER ->
            [report_type |-> "Ultrasound Analysis", prompt |-> <<"You are an expert sonographer/radiologist">>]

ConfidenceInstruction == "IMPORTANT: Include a confidence score (0-100%) for each finding."

ComparePrompt == <<"Compare these two medical images">>

(* The report type a feature page stores with its result *)
ReportTypeOf(v, p) == IF v = "app2" THEN FEATURES[p].title ELSE AppFeature(p).report_type

(* The download file name prefix of app.py: report_type.lower().replace(' ', '_') *)
Slug(report_type) ==
    CASE report_type = "Image Classification" -> "image_classification"
      [] report_type = "Medical Image Classification" -> "medical_image_classification"
      [] report_type = "X-ray Analysis" -> "x-ray_analysis"
      [] report_type = "CT Scan Analysis" -> "ct_scan_analysis"
      [] report_type = "MRI Scan Analysis" -> "mri_scan_analysis"
      [] OTHER -> "ultrasound_analysis"

-----------------------------------------------------------------------------
(* Utility functions of the scripts *)

HistoryCap == 10

(* PIL's Image.open on the uploaded bytes *)
Bitmap(file) ==
    CASE file = "chest.jpg" -> [pixels |-> file, width |-> 2, height |-> 3]
      [] OTHER -> [pixels |-> file, width |-> 4, height |-> 4]

process_image(file) ==
    IF file \in CorruptFiles
    THEN [image |-> None, error |-> TRUE]
    ELSE [image |-> Bitmap(file), error |-> FALSE]

(* generate_report with a second attempt after an exception *)
generate_report_retries(image, prompt, include_confidence, reply) ==
    LET sent == IF include_confidence THEN Append(prompt, ConfidenceInstruction) ELSE prompt
        raised == image = None \/ ~reply.ok
    IN  [call |-> <<sent, image>>,
         calls |-> IF raised THEN 2 ELSE 1,
         result |-> IF raised THEN None ELSE reply.text,
         error |-> raised]

(* generate_report returning response.text under a "R:" prefix *)
generate_report_prefixes(image, prompt, include_confidence, reply) ==
    LET sent == IF include_confidence THEN Append(prompt, ConfidenceInstruction) ELSE prompt
        raised == image = None \/ ~reply.ok
    IN  [call |-> <<sent, image>>,
         calls |-> 1,
         result |-> IF raised THEN None ELSE <<"R", ":">> \o reply.text,
         error |-> raised]

(* generate_report appending the instruction whatever the flag says *)
generate_report_always_appends(image, prompt, include_confidence, reply) ==
    LET sent == Append(prompt, ConfidenceInstruction)
        raised == image = None \/ ~reply.ok
    IN  [call |-> <<sent, image>>,
         calls |-> 1,
         result |-> IF raised THEN None ELSE reply.text,
         error |-> raised]

(* app2.py; the client library raises on an image part it cannot build *)
generate_report(image, prompt, include_confidence, reply) ==
    LET sent == IF include_confidence THEN Append(prompt, ConfidenceInstruction) ELSE prompt
        raised == image = None \/ ~reply.ok
    IN  [call |-> <<sent, image>>,
         calls |-> 1,
         result |-> IF raised THEN None ELSE reply.text,
         error |-> raised]

(* app.py *)
generate_report_app(image, prompt, reply) ==
    LET raised == image = None \/ ~reply.ok
    IN  [call |-> <<prompt, image>>,
         calls |-> 1,
         result |-> IF raised THEN None ELSE reply.text,
         error |-> raised]

(* the non-empty patient fields, under the labels the script gives them *)
PatientLabels(v) ==
    [patient_id |-> "Patient ID", patient_age |-> "Age", patient_gender |-> "Gender",
     physician |-> IF v = "app2" THEN "Physician" ELSE "Referring Physician"]

PatientInfo(v, pat) ==
    LET filled == {f \in PatientFields : pat[f] # ""}
        labels == {PatientLabels(v)[f] : f \in filled}
        field(l) == CHOOSE f \in filled : PatientLabels(v)[f] = l
    IN  [l \in labels |-> pat[field(l)]]

(* RLImage(img_temp.name, width=4*inch, height=3*inch) *)
RLImage(image) == [source |-> image, width |-> 4, height |-> 3]

(* str.split('\n'): the pieces between the line breaks, empty ones included *)
RECURSIVE split(_)
split(s) ==
    IF \A i \in 1..Len(s) : s[i] # "\n"
    THEN <<s>>
    ELSE LET i == CHOOSE k \in 1..Len(s) : s[k] = "\n" /\ \A j \in 1..(k - 1) : s[j] # "\n"
         IN  <<SubSeq(s, 1, i - 1)>> \o split(SubSeq(s, i + 1, Len(s)))

Whitespace == {" ", "\t", "\n"}

(* str.strip() *)
strip(s) ==
    LET inked == {i \in 1..Len(s) : s[i] \notin Whitespace}
    IN  IF inked = {} THEN <<>>
        ELSE SubSeq(s, CHOOSE i \in inked : \A j \in inked : i <= j,
                       CHOOSE i \in inked : \A j \in inked : i >= j)

(* line.startswith('#') *)
startswith(line, c) == Len(line) > 0 /\ line[1] = c

(* line.replace('#', '') *)
replace(line, c) == SelectSeq(line, LAMBDA x : x # c)

(* app2.py: for line in report_text.split('\n'): if line.strip(): Paragraph(line, Normal) *)
story_lines(report_text) ==
    LET lines == SelectSeq(split(report_text), LAMBDA line : strip(line) # <<>>)
    IN  [i \in 1..Len(lines) |-> [style |-> "Normal", text |-> lines[i]]]

(* app.py: a line that starts with '#' becomes a heading without its '#' characters *)
story_lines_app(report_text) ==
    LET lines == SelectSeq(split(report_text), LAMBDA line : strip(line) # <<>>)
    IN  [i \in 1..Len(lines) |->
            IF startswith(lines[i], "#")
            THEN [style |-> "Heading", text |-> strip(replace(lines[i], "#"))]
            ELSE [style |-> "Normal", text |-> lines[i]]]

(* the step, if any, at which the build of a PDF first raises: the image  *)
(* step is skipped without an image, and None has no split                 *)
Raised(report_text, image, fault) ==
    IF fault = "image" /\ image # None THEN "image"
    ELSE IF fault = "build" \/ report_text = None THEN "build"
    ELSE "none"

(* app2.py: one try block around everything *)
create_pdf(report_text, image, report_type, patient_info, fault) ==
    IF Raised(report_text, image, fault) # "none"
    THEN [pdf |-> None, error |-> TRUE, raised |-> Raised(report_text, image, fault)]
    ELSE [pdf |-> [type |-> report_type,
                   patient |-> patient_info,
                   image |-> IF image # None THEN RLImage(image) ELSE None,
                   body |-> story_lines(report_text)],
          error |-> FALSE, raised |-> "none"]

(* app.py: the image is embedded under its own try/except, which only prints *)
create_pdf_report(report_text, image, report_type, patient_info, fault) ==
    IF fault = "build" \/ report_text = None
    THEN [pdf |-> None, error |-> TRUE, raised |-> Raised(report_text, image, fault)]
    ELSE [pdf |-> [type |-> report_type,
                   patient |-> patient_info,
                   image |-> IF image # None /\ fault # "image" THEN RLImage(image) ELSE None,
                   body |-> story_lines_app(report_text)],
          error |-> FALSE, raised |-> Raised(report_text, image, fault)]

(* save_to_history without the pop: the list is never trimmed *)
save_to_history_never_evicts(history, report_type, image, report_text, timestamp) ==
    Append(history, [timestamp |-> timestamp, type |-> report_type,
                     image |-> image, report |-> report_text])

(* save_to_history with pop() for pop(0): the newest entry is dropped *)
save_to_history_pops_last(history, report_type, image, report_text, timestamp) ==
    LET appended == Append(history, [timestamp |-> timestamp, type |-> report_type,
                                     image |-> image, report |-> report_text])
    IN  IF Len(appended) > HistoryCap THEN SubSeq(appended, 1, Len(appended) - 1) ELSE appended

(* save_to_history with insert(0, ...) for append *)
save_to_history_prepends(history, report_type, image, report_text, timestamp) ==
    LET inserted == <<[timestamp |-> timestamp, type |-> report_type,
                       image |-> image, report |-> report_text]>> \o history
    IN  IF Len(inserted) > HistoryCap THEN Tail(inserted) ELSE inserted

save_to_history(history, report_type, image, report_text, timestamp) ==
    LET appended == Append(history, [timestamp |-> timestamp, type |-> report_type,
                                     image |-> image, report |-> report_text])
    IN  IF Len(appended) > HistoryCap THEN Tail(appended) ELSE appended

-----------------------------------------------------------------------------
(* One run of the script *)

ReportKeys == <<"report_text", "report_image", "report_type">>

(* what a run that renders nothing of interest leaves on the screen *)
Blank(event) ==
    [event |-> event,       \* the widget interaction that started the run
     errors |-> {},         \* the st.error messages shown
     bitmaps |-> <<>>,      \* the results of process_image, in call order
     call |-> None,         \* the argument of model.generate_content
     calls |-> 0,           \* how often model.generate_content was called
     reply |-> None,        \* what the endpoint answered to the call
     result |-> None,       \* what generate_report returned
     shown |-> None,        \* the report rendered in the report box
     success |-> FALSE,     \* the st.success message
     text_dl |-> None,      \* the text download button: data and file name
     pdf_dl |-> None,       \* the PDF download button: data and file name
     pdf_built |-> FALSE,   \* create_pdf / create_pdf_report was invoked
     pdf_raised |-> "none", \* the step of the build that raised an exception
     crashed |-> FALSE,     \* the run ended in an uncaught exception
     listing |-> <<>>]      \* the expanders of the History page

(* a Clear that also empties the history *)
ClearKeys_resets_history(ss) ==
    [k \in (DOMAIN ss) \ {ReportKeys[i] : i \in 1..3} |->
        IF k = "history" THEN <<>> ELSE ss[k]]

(* app2.py: for key in [...]: if key in st.session_state: del st.session_state[key] *)
ClearKeys(ss) == [k \in (DOMAIN ss) \ {ReportKeys[i] : i \in 1..3} |-> ss[k]]

(* app.py: three unconditional del statements; a missing key raises KeyError *)
ClearKeysStrict(ss) ==
    LET d1 == IF Has(ss, ReportKeys[1]) THEN Del(ss, ReportKeys[1]) ELSE ss
        ok1 == Has(ss, ReportKeys[1])
        d2 == IF ok1 /\ Has(d1, ReportKeys[2]) THEN Del(d1, ReportKeys[2]) ELSE d1
        ok2 == ok1 /\ Has(d1, ReportKeys[2])
        d3 == IF ok2 /\ Has(d2, ReportKeys[3]) THEN Del(d2, ReportKeys[3]) ELSE d2
        ok3 == ok2 /\ Has(d2, ReportKeys[3])
    IN  [ss |-> d3, raised |-> ~ok3]

(* the handler without the assignment of report_image *)
StoreResult_without_image(ss, result, image, report_type) ==
    Put(Put(ss, "report_text", result), "report_type", report_type)

(* the handler storing a thumbnail of the analysed image *)
StoreResult_thumbnail(ss, result, image, report_type) ==
    Put(Put(Put(ss, "report_text", result),
            "report_image", IF image = None THEN None ELSE [image EXCEPT !.width = 1, !.height = 1]),
        "report_type", report_type)

(* the three assignments of the Analyze / Generate Report handler *)
StoreResult(ss, result, image, report_type) ==
    Put(Put(Put(ss, "report_text", result), "report_image", image), "report_type", report_type)

(* the handler without its `if result:` guard *)
AnalyzeHandler_unguarded(v, ss, result, image, report_type, t) ==
    LET stored == StoreResult(ss, result, image, report_type)
    IN  IF v = "app2"
        THEN Put(stored, "history",
                 save_to_history(stored["history"], report_type, image, result, t))
        ELSE stored

(* the handler dropping the stored report when the analysis fails *)
AnalyzeHandler_clears_on_failure(v, ss, result, image, report_type, t) ==
    IF ~Truthy(result) THEN ClearKeys(ss)
    ELSE LET stored == StoreResult(ss, result, image, report_type)
         IN  IF v = "app2"
             THEN Put(stored, "history",
                      save_to_history(stored["history"], report_type, image, result, t))
             ELSE stored

(* the handler of app2.py without its save_to_history call *)
AnalyzeHandler_without_history(v, ss, result, image, report_type, t) ==
    IF ~Truthy(result) THEN ss
    ELSE StoreResult(ss, result, image, report_type)

(* what the Analyze / Generate Report handler does with the result *)
AnalyzeHandler(v, ss, result, image, report_type, t) ==
    IF ~Truthy(result) THEN ss
    ELSE LET stored == StoreResult(ss, result, image, report_type)
         IN  IF v = "app2"
             THEN Put(stored, "history",
                      save_to_history(stored["history"], report_type, image, result, t))
             ELSE stored

(* a text export of the rendered report box instead of the stored text *)
TextDownload_boxed(ss, file_name) ==
    [data |-> <<"<div>">> \o ss["report_text"] \o <<"</div>">>, file_name |-> file_name]

(* st.download_button(label, data, file_name, mime) of the text export *)
TextDownload(ss, file_name) ==
    [data |-> ss["report_text"], file_name |-> file_name]

(* the Export / Download Report section *)
ExportSection(v, p, pat, ss, t, fault, o) ==
    LET complete == \A i \in 1..3 : Has(ss, ReportKeys[i])
        info == IF PatientInfo(v, pat) = EmptyDict THEN None ELSE PatientInfo(v, pat)
        made == IF v = "app2"
                THEN create_pdf(ss["report_text"], ss["report_image"], ss["report_type"], info, fault)
                ELSE create_pdf_report(ss["report_text"], ss["report_image"], ss["report_type"], info, fault)
        prefix == IF v = "app2" THEN "report" ELSE Slug(AppFeature(p).report_type)
        name(ext) == [prefix |-> prefix, stamp |-> t, ext |-> ext]
        text_dl == TextDownload(ss, name("txt"))
    IN  IF ~complete
        THEN [o EXCEPT !.text_dl = text_dl, !.crashed = TRUE]
        ELSE [o EXCEPT !.text_dl = text_dl,
                       !.pdf_built = TRUE,
                       !.pdf_raised = made.raised,
                       !.errors = IF made.error THEN @ \cup {"pdf"} ELSE @,
                       !.pdf_dl = IF made.pdf # None
                                  THEN [data |-> made.pdf, file_name |-> name("pdf")]
                                  ELSE None]

(* a feature page; click is "analyze", "clear" or "none" *)
FeaturePage(v, p, up, pat, ss, t, event, click, reply, fault) ==
    LET report_type == ReportTypeOf(v, p)
        pressed == click = "analyze"
        (* the Clear / Clear Results button, then st.rerun() *)
        ClearButton(ss1, o2, strict) ==
            IF ~(Has(ss1, "report_text") /\ ~o2.crashed /\ click = "clear")
            THEN [ss |-> ss1, out |-> o2, rerun |-> FALSE]
            ELSE IF v = "app2"
            THEN [ss |-> ClearKeys(ss1), out |-> o2, rerun |-> TRUE]
            ELSE [ss |-> strict.ss,
                  out |-> [o2 EXCEPT !.crashed = strict.raised],
                  rerun |-> ~strict.raised]
        (* if 'report_text' in st.session_state: the export section *)
        Export(ss1, o1) ==
            ClearButton(ss1,
                        IF Has(ss1, "report_text")
                        THEN ExportSection(v, p, pat, ss1, t, fault, o1)
                        ELSE o1,
                        ClearKeysStrict(ss1))
        (* the Analyze / Generate Report button *)
        AnalyzeButton(dec, gen, ok) ==
            Export(IF pressed
                   THEN AnalyzeHandler(v, ss, gen.result, dec.image, report_type, t)
                   ELSE ss,
                   [Blank(event) EXCEPT
                      !.bitmaps = <<dec.image>>,
                      !.errors = (IF dec.error THEN {"decode"} ELSE {})
                           \cup (IF pressed /\ gen.error THEN {"inference"} ELSE {})
                           \cup (IF pressed /\ ~ok /\ v = "app" THEN {"failed"} ELSE {}),
                      !.call = IF pressed THEN gen.call ELSE None,
                      !.calls = IF pressed THEN gen.calls ELSE 0,
                      !.reply = IF pressed /\ dec.image # None THEN reply ELSE None,
                      !.result = IF pressed THEN gen.result ELSE None,
                      !.shown = IF ok THEN gen.result ELSE None,
                      !.success = ok])
        Generated(dec, gen) == AnalyzeButton(dec, gen, pressed /\ Truthy(gen.result))
        (* image = process_image(uploaded_file) *)
        Uploaded(dec) ==
            Generated(dec,
                      IF v = "app2"
                      THEN generate_report(dec.image, FEATURES[p].prompt, TRUE, reply)
                      ELSE generate_report_app(dec.image, AppFeature(p).prompt, reply))
    IN  IF up = NoFile
        THEN [ss |-> ss, out |-> Blank(event), rerun |-> FALSE]
        ELSE Uploaded(process_image(up))

(* st.image raises on None *)
st_image(image) == image # None

(* the Compare page of app2.py; click is "compare" or "none" *)
ComparePage(f1, f2, ss, event, click, reply) ==
    LET (* the Compare Images button *)
        CompareButton(d1, d2, crash1, crash2, pressed, gen) ==
            [Blank(event) EXCEPT
                !.bitmaps = (IF f1 # NoFile THEN <<d1.image>> ELSE <<>>)
                         \o (IF ~crash1 /\ f2 # NoFile THEN <<d2.image>> ELSE <<>>),
                !.errors = (IF f1 # NoFile /\ d1.error THEN {"decode"} ELSE {})
                      \cup (IF ~crash1 /\ f2 # NoFile /\ d2.error THEN {"decode"} ELSE {})
                      \cup (IF pressed /\ gen.error THEN {"inference"} ELSE {}),
                !.crashed = crash1 \/ crash2,
                !.call = IF pressed THEN gen.call ELSE None,
                !.calls = IF pressed THEN gen.calls ELSE 0,
                !.reply = IF pressed /\ d1.image # None THEN reply ELSE None,
                !.result = IF pressed THEN gen.result ELSE None,
                !.shown = IF pressed /\ Truthy(gen.result) THEN gen.result ELSE None]
        Shown(d1, d2, crash1, crash2) ==
            CompareButton(d1, d2, crash1, crash2,
                          ~crash1 /\ ~crash2 /\ f1 # NoFile /\ f2 # NoFile /\ click = "compare",
                          generate_report(d1.image, ComparePrompt, FALSE, reply))
        (* img1 = process_image(file1); st.image(img1), and the same for file2 *)
        Columns(d1, d2, crash1) ==
            Shown(d1, d2, crash1, ~crash1 /\ f2 # NoFile /\ ~st_image(d2.image))
        Decoded(d1, d2) == Columns(d1, d2, f1 # NoFile /\ ~st_image(d1.image))
    IN  [ss |-> ss, out |-> Decoded(process_image(f1), process_image(f2)), rerun |-> FALSE]

Reverse(s) == [i \in 1..Len(s) |-> s[Len(s) + 1 - i]]

(* the History page of app2.py *)
HistoryPage(ss, event) ==
    [ss |-> ss, out |-> [Blank(event) EXCEPT !.listing = Reverse(ss["history"])], rerun |-> FALSE]

(* one pass over the script *)
Pass(v, p, up, f1, f2, pat, ss, t, event, click, reply, fault) ==
    CASE p = "Home" -> [ss |-> ss, out |-> Blank(event), rerun |-> FALSE]
      [] p = "History" -> HistoryPage(ss, event)
      [] p = "Compare" -> ComparePage(f1, f2, ss, event, click, reply)
      [] OTHER -> FeaturePage(v, p, up, pat, ss, t, event, click, reply, fault)

(* a run of the script, with the pass that st.rerun() starts *)
Script(v, p, up, f1, f2, pat, ss, t, event, click, reply, fault) ==
    LET Rerun(first) ==
            IF first.rerun
            THEN Pass(v, p, up, f1, f2, pat, first.ss, t, event, "none", reply, fault)
            ELSE first
    IN  Rerun(Pass(v, p, up, f1, f2, pat, ss, t, event, click, reply, fault))

-----------------------------------------------------------------------------
(* The session *)

Init ==
    /\ variant \in {"app", "app2"}
    /\ page = "Home"
    /\ uploaded_file = NoFile
    /\ file1 = NoFile
    /\ file2 = NoFile
    /\ patient = NoPatient
    /\ session_state = IF variant = "app2"
                       THEN [history |-> <<>>, comparison_mode |-> FALSE]
                       ELSE EmptyDict
    /\ now = 0
    /\ out = Blank("start")
    /\ saved = <<>>
    /\ lastOk = None

(* the interaction `event` leaves the widgets at p, up, f1, f2, pat and reruns the script *)
Interact(event, p, up, f1, f2, pat, click, reply, fault) ==
    \E t \in {now + 1} :
    \E run \in {Script(variant, p, up, f1, f2, pat, session_state, t, event, click, reply, fault)} :
    \E analysed \in {click = "analyze" /\ Truthy(run.out.result)} :
    \E saves \in {Len(saved) + (IF analysed /\ variant = "app2" THEN 1 ELSE 0)} :
        /\ t <= MaxNow \/ (t - saves <= MaxOther /\ saves <= MaxSaved)
        /\ now' = t
        /\ page' = p
        /\ uploaded_file' = up
        /\ file1' = f1
        /\ file2' = f2
        /\ patient' = pat
        /\ session_state' = run.ss
        /\ out' = run.out
        /\ lastOk' = IF analysed
                     THEN [report_text |-> run.out.result,
                           report_image |-> run.out.call[2],
                           report_type |-> ReportTypeOf(variant, p)]
                     ELSE lastOk
        /\ saved' = IF analysed /\ variant = "app2"
                    THEN Append(saved, [timestamp |-> t, type |-> ReportTypeOf(variant, p),
                                        image |-> run.out.call[2], report |-> run.out.result])
                    ELSE saved
        /\ UNCHANGED variant

(* widgets that a page does not render lose their value *)
Navigate(p) ==
    /\ p \in Pages(variant) \ {page}
    /\ \E fault \in Faults :
          Interact("navigate", p,
                   IF p \in FeaturePages THEN uploaded_file ELSE NoFile,
                   IF p = "Compare" THEN file1 ELSE NoFile,
                   IF p = "Compare" THEN file2 ELSE NoFile,
                   IF p \in FeaturePages THEN patient ELSE NoPatient,
                   "none", [ok |-> FALSE], fault)

Upload(f) ==
    /\ page \in FeaturePages
    /\ f \in (Files \cup {NoFile}) \ {uploaded_file}
    /\ \E fault \in Faults :
          Interact("upload", page, f, file1, file2, patient, "none", [ok |-> FALSE], fault)

EditPatient(field, value) ==
    /\ page \in FeaturePages
    /\ value \in PatientValues[field] \ {patient[field]}
    /\ \E fault \in Faults :
          Interact("edit", page, uploaded_file, file1, file2,
                   [patient EXCEPT ![field] = value], "none", [ok |-> FALSE], fault)

Analyze ==
    /\ page \in FeaturePages
    /\ uploaded_file # NoFile
    /\ \E reply \in Replies, fault \in Faults :
          Interact("analyze", page, uploaded_file, file1, file2, patient, "analyze", reply, fault)

Clear ==
    /\ page \in FeaturePages
    /\ out.text_dl # None
    /\ ~out.crashed
    /\ \E fault \in Faults :
          Interact("clear", page, uploaded_file, file1, file2, patient, "clear", [ok |-> FALSE], fault)

DownloadText ==
    /\ page \in FeaturePages
    /\ out.text_dl # None
    /\ \E fault \in Faults :
          Interact("download_text", page, uploaded_file, file1, file2, patient,
                   "none", [ok |-> FALSE], fault)

DownloadPdf ==
    /\ page \in FeaturePages
    /\ out.pdf_dl # None
    /\ \E fault \in Faults :
          Interact("download_pdf", page, uploaded_file, file1, file2, patient,
                   "none", [ok |-> FALSE], fault)

Upload1(f) ==
    /\ page = "Compare"
    /\ f \in (Files \cup {NoFile}) \ {file1}
    /\ Interact("upload1", page, uploaded_file, f, file2, patient, "none", [ok |-> FALSE], "none")

Upload2(f) ==
    /\ page = "Compare"
    /\ file1 \notin CorruptFiles
    /\ f \in (Files \cup {NoFile}) \ {file2}
    /\ Interact("upload2", page, uploaded_file, file1, f, patient, "none", [ok |-> FALSE], "none")

Compare ==
    /\ page = "Compare"
    /\ file1 # NoFile
    /\ file2 # NoFile
    /\ ~out.crashed
    /\ \E reply \in Replies :
          Interact("compare", page, uploaded_file, file1, file2, patient, "compare", reply, "none")

Next ==
    \/ \E p \in {"Home", "History", "Compare"} \cup FeaturePages : Navigate(p)
    \/ \E f \in Files \cup {NoFile} : Upload(f)
    \/ \E field \in PatientFields : \E value \in PatientValues[field] : EditPatient(field, value)
    \/ Analyze
    \/ Clear
    \/ DownloadText
    \/ DownloadPdf
    \/ \E f \in Files \cup {NoFile} : Upload1(f)
    \/ \E f \in Files \cup {NoFile} : Upload2(f)
    \/ Compare

Spec == Init /\ [][Next]_vars

-----------------------------------------------------------------------------
(* Properties *)

history == session_state["history"]

HasReport == Has(session_state, "report_text")

(* the failures the scripts report: decode, inference, PDF export *)
Failures(o) == o.errors \cap {"decode", "inference", "pdf"}

(* C1: in app2.py the history list never holds more than 10 entries *)
HistoryAtMostTen ==
    variant = "app2" => Len(history) <= 10

HistoryAtMostTenWitness ==
    /\ variant = "app2"
    /\ Len(saved) > 10
    /\ Len(history) = 10

Min(a, b) == IF a < b THEN a ELSE b

(* C2: after N saves the history is exactly the min(N, 10) most recently   *)
(* saved analyses, oldest first; the 11th save removes the earliest one    *)
HistoryIsFifo ==
    variant = "app2" =>
        history = SubSeq(saved, Len(saved) - Min(Len(saved), 10) + 1, Len(saved))

HistoryIsFifoWitness ==
    /\ variant = "app2"
    /\ Len(saved) = 11
    /\ history[1] = saved[2]
    /\ history[10] = saved[11]
    /\ \A i \in 1..10 : history[i] # saved[1]

ClearStep ==
    /\ out'.event = "clear"
    /\ \A i \in 1..3 : ~Has(session_state', ReportKeys[i])
    /\ Has(session_state, "history") =>
          /\ Has(session_state', "history")
          /\ session_state'["history"] = session_state["history"]

(* C3: Clear removes report_text, report_image and report_type and leaves  *)
(* the history as it was                                                   *)
ClearRemovesReportKeepsHistory ==
    [][out'.event = "clear" => ClearStep]_vars

ClearRemovesReportKeepsHistoryWitness ==
    /\ out.event = "clear"
    /\ variant = "app2"
    /\ ~HasReport
    /\ Len(history) > 0

(* C4: a run in which a decode, an inference call or a PDF export failed,  *)
(* and in which no analysis succeeded and Clear was not pressed, leaves    *)
(* the session state (current report and history) as it was                *)
FailureKeepsSessionState ==
    [][(Failures(out') # {} /\ ~out'.success /\ out'.event # "clear")
          => session_state' = session_state]_vars

FailureKeepsSessionStateWitness ==
    /\ HasReport
    /\ lastOk # None
    /\ session_state["report_text"] = lastOk.report_text
    /\ \/ out.event = "analyze" /\ "inference" \in out.errors
       \/ out.event = "upload" /\ "decode" \in out.errors
       \/ "pdf" \in out.errors /\ ~out.success

(* C5: report_text, report_image and report_type are all present or all    *)
(* absent, and when present they are those of one successful analysis      *)
OneCurrentReport ==
    /\ \/ \A i \in 1..3 : Has(session_state, ReportKeys[i])
       \/ \A i \in 1..3 : ~Has(session_state, ReportKeys[i])
    /\ HasReport =>
          /\ lastOk # None
          /\ session_state["report_text"] = lastOk.report_text
          /\ session_state["report_image"] = lastOk.report_image
          /\ session_state["report_type"] = lastOk.report_type

OneCurrentReportWitness ==
    /\ HasReport
    /\ Has(session_state, "report_image")
    /\ uploaded_file \in GoodFiles
    /\ Bitmap(uploaded_file) # session_state["report_image"]
    /\ ReportTypeOf(variant, page) # session_state["report_type"]

HistoryStep ==
    LET h == session_state["history"]
        g == session_state'["history"]
    IN  \/ g = h
        \/ Len(h) < 10 /\ Len(g) = Len(h) + 1 /\ SubSeq(g, 1, Len(h)) = h
        \/ Len(h) = 10 /\ Len(g) = 10 /\ SubSeq(g, 1, 9) = Tail(h)

(* C6: every step leaves the history unchanged, or appends one entry, or   *)
(* appends one entry and removes the first when the length would exceed 10 *)
HistoryAppendOnly ==
    [][variant = "app2" => HistoryStep]_vars

HistoryAppendOnlyWitness ==
    /\ variant = "app2"
    /\ out.event = "analyze"
    /\ out.success
    /\ Len(saved) = 11
    /\ history[10].timestamp = now
    /\ history[1].timestamp = saved[2].timestamp

AnalysisAppendsEntry ==
    LET h == session_state["history"]
        g == session_state'["history"]
        e == g[Len(g)]
    IN  /\ Truthy(out'.result) =>
              /\ Len(g) > 0
              /\ g = Append(h, e) \/ g = Tail(Append(h, e))
              /\ e.report = out'.result
              /\ e.image = out'.call[2]
        /\ ~Truthy(out'.result) => g = h

(* C7: every successful analysis, the comparison included, appends one     *)
(* entry with its type, image and text; a failed one appends none          *)
EverySuccessfulAnalysisSaved ==
    [][(variant = "app2" /\ out'.event \in {"analyze", "compare"})
          => AnalysisAppendsEntry]_vars

(* C8: the data of the text download is the report_text in session state   *)
TextDownloadIsReportText ==
    out.text_dl # None =>
        /\ HasReport
        /\ out.text_dl.data = session_state["report_text"]

TextDownloadIsReportTextWitness ==
    /\ out.event = "download_text"
    /\ out.text_dl # None
    /\ out.text_dl.data \in Texts

(* C9: on a feature page, whenever a report is in session state and the    *)
(* PDF library did not fail, the PDF download is offered                   *)
PdfAvailableWheneverReport ==
    (page \in FeaturePages /\ HasReport /\ "pdf" \notin out.errors)
        => out.pdf_dl # None

DecodeFailed(o) == \E i \in 1..Len(o.bitmaps) : o.bitmaps[i] = None

(* C10: after a failed decode the error is shown and nothing derived from  *)
(* the failed upload is used later in the run: no request is built from it *)
DecodeFailureAborts ==
    DecodeFailed(out) =>
        /\ "decode" \in out.errors
        /\ out.call = None

(* C11: a run calls the endpoint at most once, and only when Analyze,      *)
(* Generate Report or Compare was pressed; a call that fails returns None  *)
(* and shows an error                                                      *)
NoAutomaticRetry ==
    /\ out.calls <= 1
    /\ out.calls >= 1 => out.event \in {"analyze", "compare"}
    /\ (out.calls >= 1 /\ (out.reply = None \/ ~out.reply.ok)) =>
          /\ out.result = None
          /\ "inference" \in out.errors

NoAutomaticRetryWitness ==
    /\ out.event = "analyze"
    /\ out.calls = 1
    /\ out.reply = [ok |-> FALSE]
    /\ out.result = None
    /\ "inference" \in out.errors

(* C12: after a successful analysis the stored report text, and the text   *)
(* of the new history entry, is the text the endpoint returned             *)
ReportTextVerbatim ==
    (out.event = "analyze" /\ out.success) =>
        /\ out.reply # None
        /\ session_state["report_text"] = out.reply.text
        /\ variant = "app2" => history[Len(history)].report = out.reply.text

ReportTextVerbatimWitness ==
    /\ variant = "app2"
    /\ out.event = "analyze"
    /\ out.success
    /\ out.reply # None
    /\ out.reply.text \in Texts
    /\ history[Len(history)].report = out.reply.text

(* C13: an error at any step of the PDF build is shown to the user as an   *)
(* error message and no PDF is offered for download                        *)
PdfErrorSurfaced ==
    out.pdf_raised # "none" => ("pdf" \in out.errors /\ out.pdf_dl = None)

AnalysedOk(o) == o.event = "analyze" /\ o.success

(* C14: a successful analysis stores the bitmap that its request carried,  *)
(* with that bitmap's width and height, and the stored bitmap stays the    *)
(* same until a Clear or a later successful analysis, whatever is uploaded *)
ReportImageIsRequestImage ==
    [][/\ AnalysedOk(out') =>
             /\ session_state'["report_image"] = out'.call[2]
             /\ session_state'["report_image"] = process_image(uploaded_file').image
             /\ session_state'["report_image"].width = out'.call[2].width
             /\ session_state'["report_image"].height = out'.call[2].height
       /\ (HasReport /\ Has(session_state', "report_image") /\ ~AnalysedOk(out')) =>
             session_state'["report_image"] = session_state["report_image"]]_vars

ReportImageIsRequestImageWitness ==
    /\ HasReport
    /\ out.event = "upload"
    /\ uploaded_file \in GoodFiles
    /\ Bitmap(uploaded_file).width # session_state["report_image"].width
    /\ session_state["report_image"] = lastOk.report_image

(* the report keys of a session state, with their values *)
ReportOf(ss) == [k \in (DOMAIN ss) \cap {ReportKeys[i] : i \in 1..3} |-> ss[k]]

PdfBuiltOnRequestOnly ==
    out.pdf_built => out.event \in {"download_text", "download_pdf"}

(* C17: the file names of both downloads carry the report type of the      *)
(* stored report and the time of the export                                *)
DownloadNamedByReportType ==
    /\ out.text_dl # None =>
          /\ Has(session_state, "report_type")
          /\ out.text_dl.file_name.prefix = Slug(session_state["report_type"])
          /\ out.text_dl.file_name.stamp = now
    /\ out.pdf_dl # None =>
          /\ out.pdf_dl.file_name.prefix = Slug(session_state["report_type"])
          /\ out.pdf_dl.file_name.stamp = now

(* a line without the '#' characters it starts with *)
WithoutMarker(line) ==
    LET rest == {i \in 1..Len(line) : line[i] # "#"}
    IN  IF rest = {} THEN <<>>
        ELSE strip(SubSeq(line, CHOOSE i \in rest : \A j \in rest : i <= j, Len(line)))

(* one paragraph per non-blank line: a sub-heading for a line that starts  *)
(* with '#', a normal paragraph for any other                              *)
ParagraphPerLine(text) ==
    LET lines == SelectSeq(split(text), LAMBDA line : strip(line) # <<>>)
    IN  [i \in 1..Len(lines) |->
            IF startswith(lines[i], "#")
            THEN [style |-> "Heading", text |-> WithoutMarker(lines[i])]
            ELSE [style |-> "Normal", text |-> lines[i]]]

(* C18: the body of the PDF has one paragraph per non-blank line of the    *)
(* report text, in order, a line that starts with '#' as a sub-heading     *)
(* without the marker and any other line as a normal paragraph             *)
PdfParagraphPerLine ==
    out.pdf_dl # None =>
        out.pdf_dl.data.body = ParagraphPerLine(session_state["report_text"])

(* generate_report is called with include_confidence=True by the feature   *)
(* pages of app2.py and with the default False by its Compare page         *)
IncludeConfidence(o) == variant = "app2" /\ o.event = "analyze"

Template(o) ==
    IF o.event = "compare" THEN ComparePrompt
    ELSE IF variant = "app2" THEN FEATURES[page].prompt
    ELSE AppFeature(page).prompt

(* C19: the prompt of a request is the template of the page, followed by   *)
(* the confidence instruction exactly when include_confidence is true      *)
PromptIsTemplate ==
    out.call # None =>
        out.call[1] = IF IncludeConfidence(out)
                      THEN Append(Template(out), ConfidenceInstruction)
                      ELSE Template(out)

PromptIsTemplateWitness ==
    /\ variant = "app2"
    /\ out.event = "analyze"
    /\ Len(saved) >= 2
    /\ out.call # None
    /\ out.call[1] = <<FEATURES[page].prompt[1], ConfidenceInstruction>>

(* C20: every call of the endpoint carries a decoded bitmap                *)
RequestCarriesBitmap ==
    out.calls > 0 => out.call[2] # None

(* C21: the request of a Compare Images press carries the comparison       *)
(* prompt, the first uploaded image and the second uploaded image          *)
CompareSendsBothImages ==
    (out.event = "compare" /\ out.calls > 0) =>
        /\ out.call[1] = ComparePrompt
        /\ Len(out.call) = 3
        /\ out.call[2] = process_image(file1).image
        /\ out.call[3] = process_image(file2).image

(* C22: in app2.py, whenever a current report is present the history is    *)
(* not empty and its last entry has the text, image and type of the report *)
NewestEntryIsCurrentReport ==
    (variant = "app2" /\ HasReport) =>
        /\ Len(history) > 0
        /\ history[Len(history)].report = session_state["report_text"]
        /\ history[Len(history)].image = session_state["report_image"]
        /\ history[Len(history)].type = session_state["report_type"]

NewestEntryIsCurrentReportWitness ==
    /\ variant = "app2"
    /\ HasReport
    /\ out.event = "analyze"
    /\ Len(saved) > HistoryCap
    /\ history[Len(history)].timestamp = now
    /\ history[Len(history)].image = session_state["report_image"]

EmptyReply(o) == o.reply = [ok |-> TRUE, text |-> EmptyText]

(* C23: an analysis whose call returns the empty text leaves the current   *)
(* report and the history as they were and shows no success message, and   *)
(* a run that stores a report got a non-empty text                         *)
EmptyTextIsFailure ==
    [][/\ (out'.event = "analyze" /\ EmptyReply(out')) =>
             /\ session_state' = session_state
             /\ ~out'.success
             /\ out'.shown = None
       /\ AnalysedOk(out') =>
             (out'.reply # None /\ out'.reply.ok /\ out'.reply.text # EmptyText)]_vars

EmptyTextIsFailureWitness ==
    /\ out.event = "analyze"
    /\ EmptyReply(out)
    /\ out.calls = 1
    /\ HasReport
    /\ ReportOf(session_state) = lastOk
    /\ ~out.success

====
